---- MODULE Spec2Model ----
(***************************************************************************)
(* State-machine model of sipster (src/sipster/__init__.py): one UserAgent *)
(* (Client or Server), its Application (dispatcher, dialog table,          *)
(* dialog_ready future), the handle_incoming tasks the dispatcher spawns,  *)
(* and the application flow that calls the agent's send / recv API.        *)
(***************************************************************************)
EXTENDS Integers, Sequences, FiniteSets, TLC

VARIABLES
    kind,              \* "Client" or "Server": which _get_dialog the agent has
    dialog,            \* UserAgent.dialog: 0 (None) or an index into dialogs
    dialogs,           \* every Dialog object created so far, in creation order
    app_dialogs,       \* Application._dialogs: Call-ID -> index into dialogs, 0 = absent
    dialog_ready,      \* Application.dialog_ready: the asyncio.Future
    transports,        \* Application._transports: per connection, how often close() was called
    queue,             \* UserAgent.queue
    cseq,              \* UserAgent.cseq
    call_id,           \* UserAgent.call_id, "" = None
    message_callback,  \* UserAgent.message_callback, "" = None
    method_routes,     \* UserAgent.method_routes: method -> handler, "" = no route
    require_cancel,    \* UserAgent.require_cancel
    tasks,             \* the handle_incoming coroutines scheduled by dispatch
    pc,                \* the application flow's position inside an API call
    result,            \* how the last completed API call ended
    sent,              \* what was handed to dialog.send_message / dialog.send_reply
    delivered,         \* every message put on the queue so far, in put order
    popped,            \* the messages queue.get() returned during the current recv_* call
    narrived,          \* number of messages passed to dispatch so far
    ncalls,            \* number of API calls made so far
    caller_headers,    \* the headers dict the application keeps and passes by reference
    budget             \* how many calls and messages this exploration allows

vars == <<kind, dialog, dialogs, app_dialogs, dialog_ready, transports, queue, cseq,
          call_id, message_callback, method_routes, require_cancel, tasks, pc,
          result, sent, delivered, popped, narrived, ncalls, caller_headers, budget>>

(***************************************************************************)
(* Bounds of the exploration.                                              *)
(***************************************************************************)
MaxEvents == 4      \* API calls made by the application plus messages dispatched
ScenarioEvents == 5 \* the same, in the exploration of the call scenarios

(***************************************************************************)
(* Input domains.                                                          *)
(***************************************************************************)
None == 0
CallIds == {"c1", "c2"}

\* the Call-IDs aiosip gives the dialogs it starts: start_dialog takes the first one
\* of this list that no dialog is registered under
StartCallIds == <<"c1", "c2", "c3", "c4", "c5">>
AllCallIds == CallIds \cup {StartCallIds[i] : i \in 1..Len(StartCallIds)}
RequestMethods == {"INVITE", "ACK", "BYE"}

\* a headers mapping is a set of <<name, value>> pairs with one pair per name
NoHeaders == {}
\* the dict the application keeps for its requests: not empty, no CSeq entry
AppHeaders == {<<"Subject", "call">>}
HasHeader(headers, name) == \E h \in headers : h[1] = name
Header(headers, name) == (CHOOSE h \in headers : h[1] = name)[2]
SetHeader(headers, name, value) ==
    {h \in headers : h[1] # name} \cup {<<name, value>>}

\* '{} {}'.format(number, method): a CSeq header value
CSeqHeader(number, method) == <<number, method>>

\* cseq, _, _ = header.partition(' '); int(cseq)
CSeqNumber(header) == header[1]

\* status.split(' ', 1); int(status_code)
StatusCode(status) == status[1]

OK200 == <<200, "OK">>
NoStatus == <<0, "">>

\* the callbacks the application may register: on_any answers every message with
\* "200 OK", on_bye answers only a BYE and returns nothing for the rest
NoResponse == <<>>
HandlerResponse(h, msg) ==
    IF h = "on_any" \/ (h = "on_bye" /\ msg.method = "BYE") THEN OK200 ELSE NoResponse

\* the raw aiosip messages the transport may hand to dispatch
RawRequest(c, m, n) ==
    [type |-> "Request", call_id |-> c, method |-> m, status_code |-> 0,
     cseq |-> CSeqHeader(n, m), id |-> 0]

RawResponse(c, s, n) ==
    [type |-> "Response", call_id |-> c, method |-> "INVITE", status_code |-> s,
     cseq |-> CSeqHeader(n, "INVITE"), id |-> 0]

NoMsg ==
    [type |-> "None", call_id |-> "", method |-> "", status_code |-> 0,
     cseq |-> CSeqHeader(0, ""), id |-> 0]

\* the messages the transport hands to dispatch in this exploration.  A client is
\* sent responses to its INVITE and a response of another call; a server is sent
\* requests of two calls and one response.
ClientInbound ==
    {RawResponse("c1", 180, 1), RawResponse("c1", 200, 1), RawResponse("c1", 486, 1),
     RawResponse("c2", 200, 1)}

ServerInbound ==
    {RawRequest("c1", "INVITE", 2), RawRequest("c1", "BYE", 1),
     RawRequest("c2", "INVITE", 1), RawResponse("c1", 200, 1)}

Idle ==
    [op |-> "idle", stage |-> "", method |-> "", status |-> NoStatus, ignore |-> {},
     headers |-> NoHeaders, shared |-> FALSE, msg |-> NoMsg, dlg |-> None]

\* the call that ended (frame), how (outcome, error and what the error reports), and
\* the message it returned
NoResult ==
    [frame |-> Idle, outcome |-> "none", error |-> "", expected |-> "", actual |-> "",
     msg |-> NoMsg]

\* the agent and its application as their constructors leave them
Constructed ==
    /\ kind \in {"Client", "Server"}
    /\ dialog = None
    /\ dialogs = <<>>
    /\ app_dialogs = [c \in AllCallIds |-> None]
    /\ dialog_ready = [state |-> "pending", result |-> None]
    /\ transports = <<>>
    /\ queue = <<>>
    /\ cseq = 0
    /\ call_id = ""
    /\ message_callback = ""
    /\ method_routes = [m \in RequestMethods |-> ""]
    /\ require_cancel = FALSE
    /\ tasks = <<>>
    /\ pc = Idle
    /\ result = NoResult
    /\ sent = <<>>
    /\ delivered = <<>>
    /\ popped = <<>>
    /\ narrived = 0
    /\ ncalls = 0
    /\ caller_headers = AppHeaders

Init == Constructed /\ budget = MaxEvents

(***************************************************************************)
(* Dialog.receive_message: put the message on the owning agent's queue.    *)
(***************************************************************************)
receive_message(msg) ==
    /\ queue' = Append(queue, msg)
    /\ delivered' = Append(delivered, msg)

\* asyncio.Future.done(): a future with a result, and a cancelled one, are done
FutureDone(fut) == fut.state # "pending"

(***************************************************************************)
(* Application.dispatch: a message of a registered Call-ID goes to its     *)
(* dialog, any other schedules a handle_incoming task on the loop.         *)
(***************************************************************************)
dispatch(raw) ==
    /\ narrived + ncalls < budget
    /\ narrived' = narrived + 1
    /\ LET msg == [raw EXCEPT !.id = narrived + 1]
           key == msg.call_id
       IN  IF app_dialogs[key] # None
           THEN /\ receive_message(msg)
                /\ UNCHANGED tasks
           ELSE /\ tasks' = Append(tasks, [msg |-> msg, pc |-> "scheduled"])
                /\ UNCHANGED <<queue, delivered>>
    /\ UNCHANGED <<caller_headers, budget>>
    /\ UNCHANGED <<kind, dialog, dialogs, app_dialogs, dialog_ready, transports, cseq,
                   call_id, message_callback, method_routes, require_cancel, pc,
                   result, sent, popped, ncalls>>

\* loop.call_soon runs its callbacks first in, first out: the task that starts
\* next is the oldest one still scheduled
NextScheduled(i) ==
    /\ i \in 1..Len(tasks)
    /\ tasks[i].pc = "scheduled"
    /\ \A j \in 1..(i - 1) : tasks[j].pc # "scheduled"

(***************************************************************************)
(* Application.handle_incoming up to its first suspension: the done()      *)
(* test, the addresses, then the wait for create_connection.               *)
(***************************************************************************)
handle_incoming_start(i) ==
    /\ NextScheduled(i)
    /\ tasks' = [tasks EXCEPT ![i].pc =
                    IF FutureDone(dialog_ready) THEN "discarded" ELSE "connecting"]
    /\ UNCHANGED <<caller_headers, budget>>
    /\ UNCHANGED <<kind, dialog, dialogs, app_dialogs, dialog_ready, transports, queue,
                   cseq, call_id, message_callback, method_routes, require_cancel, pc,
                   result, sent, delivered, popped, narrived, ncalls>>

(***************************************************************************)
(* Application.handle_incoming after create_connection returned: build the *)
(* Dialog, register it, hand it the message, resolve dialog_ready.         *)
(* Future.set_result on a future that is already done raises               *)
(* InvalidStateError, after the dialog was registered and the message put. *)
(***************************************************************************)
handle_incoming_finish(i) ==
    /\ i \in 1..Len(tasks)
    /\ tasks[i].pc = "connecting"
    /\ LET msg == tasks[i].msg
           dlg == Len(dialogs) + 1
       IN  /\ transports' = Append(transports, 0)
           /\ dialogs' = Append(dialogs, [call_id |-> msg.call_id, open |-> TRUE,
                                          made_by |-> "handle_incoming"])
           /\ app_dialogs' = [app_dialogs EXCEPT ![msg.call_id] = dlg]
           /\ receive_message(msg)
           /\ IF FutureDone(dialog_ready)
              THEN /\ tasks' = [tasks EXCEPT ![i].pc = "InvalidStateError"]
                   /\ UNCHANGED dialog_ready
              ELSE /\ tasks' = [tasks EXCEPT ![i].pc = "done"]
                   /\ dialog_ready' = [state |-> "resolved", result |-> dlg]
    /\ UNCHANGED <<caller_headers, budget>>
    /\ UNCHANGED <<kind, dialog, cseq, call_id, message_callback, method_routes,
                   require_cancel, pc, result, sent, popped, narrived, ncalls>>

(***************************************************************************)
(* The application flow.  An API call that awaits get_dialog or the queue  *)
(* is followed through pc; one call is in progress at a time.              *)
(***************************************************************************)
AfterGetDialog(op) == IF op \in {"recv_request", "recv_response"} THEN "pop" ELSE "body"

Finished(outcome, error, expected, actual, msg) ==
    [frame |-> pc, outcome |-> outcome, error |-> error, expected |-> expected,
     actual |-> actual, msg |-> msg]

\* the call runs up to its first await: get_dialog returns a bound dialog at once
\* (line 140), and only an unbound one is awaited
Call(frame) ==
    /\ pc.op = "idle"
    /\ narrived + ncalls < budget
    /\ ncalls' = ncalls + 1
    /\ pc' = [frame EXCEPT !.stage = IF dialog # None THEN AfterGetDialog(frame.op)
                                                     ELSE "get_dialog"]
    /\ popped' = <<>>
    /\ UNCHANGED <<caller_headers, budget>>
    /\ UNCHANGED <<kind, dialog, dialogs, app_dialogs, dialog_ready, transports, queue,
                   cseq, call_id, message_callback, method_routes, require_cancel, tasks,
                   result, sent, delivered, narrived>>

\* await agent.send_request(method, headers=headers)
call_send_request(method, headers) ==
    Call([Idle EXCEPT !.op = "send_request", !.stage = "get_dialog",
                      !.method = method, !.headers = headers])

\* await agent.send_request(method, headers=h), h being the dict the application keeps:
\* send_request works on the caller's object
call_send_request_shared(method) ==
    Call([Idle EXCEPT !.op = "send_request", !.stage = "get_dialog",
                      !.method = method, !.headers = caller_headers, !.shared = TRUE])

\* a _respond that passes no headers on
RespondHeaders_noCSeq(msg, method) == NoHeaders

\* Response._respond: the CSeq number of the response with the new method
RespondHeaders(msg, method) ==
    SetHeader(NoHeaders, "CSeq", CSeqHeader(CSeqNumber(msg.cseq), method))

\* await response.ack() / response.cancel() on the response recv_response returned
call_respond_to_response(method) ==
    /\ result.outcome = "returned"
    /\ result.msg.type = "Response"
    /\ call_send_request(method, RespondHeaders(result.msg, method))

\* await request.respond(status) on the request recv_request returned
call_respond(status) ==
    /\ result.outcome = "returned"
    /\ result.msg.type = "Request"
    /\ Call([Idle EXCEPT !.op = "send_response", !.stage = "get_dialog",
                         !.status = status,
                         !.headers = SetHeader(NoHeaders, "CSeq", result.msg.cseq)])

\* await agent.recv_request(method, ignore)
call_recv_request(method, ignore) ==
    Call([Idle EXCEPT !.op = "recv_request", !.stage = "get_dialog",
                      !.method = method, !.ignore = ignore])

\* await agent.recv_response(status, ignore)
call_recv_response(status, ignore) ==
    Call([Idle EXCEPT !.op = "recv_response", !.stage = "get_dialog",
                      !.status = status, !.ignore = ignore])


\* the call failed: the exception reaches the caller
Raise(error, expected, actual) ==
    /\ pc' = Idle
    /\ result' = Finished("raised", error, expected, actual, NoMsg)

\* aiosip gives every dialog it starts a Call-ID of its own
FreshCallId ==
    StartCallIds[CHOOSE i \in 1..Len(StartCallIds) :
                    /\ app_dialogs[StartCallIds[i]] = None
                    /\ \A j \in 1..(i - 1) : app_dialogs[StartCallIds[j]] # None]

(***************************************************************************)
(* UserAgent.get_dialog with no dialog bound:                              *)
(* asyncio.wait_for awaits _get_dialog() for 30 s: Client._get_dialog      *)
(* starts a dialog, Server._get_dialog is the dialog_ready future itself,  *)
(* which wait_for cancels when the 30 s are over.                          *)
(***************************************************************************)
\* Client._get_dialog, run by wait_for in a task of its own: app.start_dialog opens a
\* connection, builds the dialog and registers it, whatever is registered already
start_dialog ==
    /\ pc.stage = "get_dialog"
    /\ dialog = None
    /\ kind = "Client"
    /\ LET dlg == Len(dialogs) + 1
       IN  /\ transports' = Append(transports, 0)
           /\ dialogs' = Append(dialogs, [call_id |-> FreshCallId, open |-> TRUE,
                                          made_by |-> "start_dialog"])
           /\ app_dialogs' = [app_dialogs EXCEPT ![FreshCallId] = dlg]
           /\ pc' = [pc EXCEPT !.stage = "got_dialog", !.dlg = dlg]
    /\ UNCHANGED <<caller_headers, budget>>
    /\ UNCHANGED <<kind, dialog, dialog_ready, queue, cseq, call_id, message_callback,
                   method_routes, require_cancel, tasks, result, sent, delivered, popped,
                   narrived, ncalls>>

\* line 141 on a client: get_dialog resumes, a loop iteration or more after the task
\* ended, and binds the dialog the task returned
get_dialog_client ==
    /\ pc.stage = "got_dialog"
    /\ dialog' = pc.dlg
    /\ pc' = [pc EXCEPT !.stage = AfterGetDialog(pc.op), !.dlg = None]
    /\ UNCHANGED <<caller_headers, budget>>
    /\ UNCHANGED <<kind, dialogs, app_dialogs, dialog_ready, transports, queue, cseq,
                   call_id, message_callback, method_routes, require_cancel, tasks,
                   result, sent, delivered, popped, narrived, ncalls>>

get_dialog_server ==
    /\ pc.stage = "get_dialog"
    /\ dialog = None
    /\ kind = "Server"
    /\ dialog_ready.state = "resolved"
    /\ dialog' = dialog_ready.result
    /\ pc' = [pc EXCEPT !.stage = AfterGetDialog(pc.op)]
    /\ UNCHANGED <<caller_headers, budget>>
    /\ UNCHANGED <<kind, dialogs, app_dialogs, dialog_ready, transports, queue, cseq,
                   call_id, message_callback, method_routes, require_cancel, tasks,
                   result, sent, delivered, popped, narrived, ncalls>>

\* what wait_for's timeout does to the awaitable _get_dialog() returned
TimedOut(fut) ==
    IF kind = "Server" THEN [fut EXCEPT !.state = "cancelled"] ELSE fut

get_dialog_timeout ==
    /\ pc.stage = "get_dialog"
    /\ dialog = None
    /\ kind = "Server" => dialog_ready.state = "pending"
    /\ dialog_ready' = TimedOut(dialog_ready)
    /\ Raise("TimeoutError", "", "")
    /\ UNCHANGED <<caller_headers, budget>>
    /\ UNCHANGED <<kind, dialog, dialogs, app_dialogs, transports, queue, cseq, call_id,
                   message_callback, method_routes, require_cancel, tasks, sent,
                   delivered, popped, narrived, ncalls>>

\* awaiting a cancelled future raises CancelledError
get_dialog_cancelled ==
    /\ pc.stage = "get_dialog"
    /\ dialog = None
    /\ kind = "Server"
    /\ dialog_ready.state = "cancelled"
    /\ Raise("CancelledError", "", "")
    /\ UNCHANGED <<caller_headers, budget>>
    /\ UNCHANGED <<kind, dialog, dialogs, app_dialogs, dialog_ready, transports, queue,
                   cseq, call_id, message_callback, method_routes, require_cancel, tasks,
                   sent, delivered, popped, narrived, ncalls>>

(***************************************************************************)
(* UserAgent.send_request after get_dialog.                                *)
(***************************************************************************)
\* a send_request that forgets to clear the flag on ACK
RequireCancelAfter_keepsOnAck(flag, method) ==
    IF method = "INVITE" THEN TRUE ELSE flag

\* lines 230-233
RequireCancelAfter(flag, method) ==
    IF method = "INVITE" THEN TRUE
    ELSE IF method = "ACK" THEN FALSE
    ELSE flag

\* a send_request that increments whatever the caller supplied
CSeqAfter_ignoresHeader(counter, headers) == counter + 1

\* lines 235-240: the counter after the call
CSeqAfter(counter, headers) ==
    IF ~HasHeader(headers, "CSeq")
    THEN counter + 1
    ELSE CSeqNumber(Header(headers, "CSeq"))

\* lines 235-240: the headers handed to dialog.send_message
RequestHeaders(counter, method, headers) ==
    IF ~HasHeader(headers, "CSeq")
    THEN SetHeader(headers, "CSeq", CSeqHeader(counter + 1, method))
    ELSE headers

\* lines 225-237: an empty headers argument is replaced by a new dict, any other is
\* the caller's object, and the CSeq entry is written into it
CallerHeadersAfter(shared, counter, method, headers) ==
    IF shared /\ headers # NoHeaders
    THEN RequestHeaders(counter, method, headers)
    ELSE caller_headers

SentRequest(method, headers) ==
    [kind |-> "request", method |-> method, status |-> NoStatus, headers |-> headers,
     dialog |-> dialog]

SentReply(status, headers) ==
    [kind |-> "reply", method |-> "", status |-> status, headers |-> headers,
     dialog |-> dialog]

send_request ==
    /\ pc.op = "send_request"
    /\ pc.stage = "body"
    /\ require_cancel' = RequireCancelAfter(require_cancel, pc.method)
    /\ cseq' = CSeqAfter(cseq, pc.headers)
    /\ sent' = Append(sent, SentRequest(pc.method,
                                        RequestHeaders(cseq, pc.method, pc.headers)))
    /\ caller_headers' = CallerHeadersAfter(pc.shared, cseq, pc.method, pc.headers)
    /\ pc' = Idle
    /\ result' = Finished("done", "", "", "", NoMsg)
    /\ UNCHANGED <<kind, dialog, dialogs, app_dialogs, dialog_ready, transports, queue,
                   call_id, message_callback, method_routes, tasks, delivered, popped,
                   narrived, ncalls, budget>>

(***************************************************************************)
(* UserAgent.send_response after get_dialog.                               *)
(***************************************************************************)
send_response ==
    /\ pc.op = "send_response"
    /\ pc.stage = "body"
    /\ sent' = Append(sent, SentReply(pc.status, pc.headers))
    /\ pc' = Idle
    /\ result' = Finished("done", "", "", "", NoMsg)
    /\ UNCHANGED <<caller_headers, budget>>
    /\ UNCHANGED <<kind, dialog, dialogs, app_dialogs, dialog_ready, transports, queue,
                   cseq, call_id, message_callback, method_routes, require_cancel, tasks,
                   delivered, popped, narrived, ncalls>>

(***************************************************************************)
(* UserAgent.recv: one turn of its loop on the message queue.get() gave.   *)
(***************************************************************************)
\* lines 157-168: what the global callback, and else the method's route, answers
AutoResponse(msg) ==
    LET callback == IF message_callback # ""
                    THEN HandlerResponse(message_callback, msg)
                    ELSE NoResponse
        route == method_routes[msg.method]
    IN  IF callback # NoResponse THEN callback
        ELSE IF route # "" THEN HandlerResponse(route, msg)
        ELSE NoResponse

\* _wrap_msg(msg).respond exists for a Request only: Response proxies the
\* attribute to the raw message, which has none
RecvTurn(msg, msg_type) ==
    IF AutoResponse(msg) # NoResponse
    THEN IF msg.type = "Request" THEN "answered" ELSE "AttributeError"
    ELSE IF msg.type = msg_type THEN "returned" ELSE "skipped"

MsgType(op) == IF op = "recv_request" THEN "Request" ELSE "Response"

\* what the ignore list is compared with: msg.method, msg.status_code
IgnoreKey(msg) == IF msg.type = "Request" THEN msg.method ELSE msg.status_code

\* a loop that breaks on every message of the call, ignore list or not
Filter_ignoresNothing(msg, ignore) ==
    IF call_id # "" /\ msg.call_id # call_id THEN "other_call" ELSE "accepted"

\* a loop that does not compare Call-IDs
Filter_anyCall(msg, ignore) ==
    IF IgnoreKey(msg) \in ignore THEN "ignored" ELSE "accepted"

\* lines 178-184 / 203-209, on a message recv returned
Filter(msg, ignore) ==
    IF call_id # "" /\ msg.call_id # call_id THEN "other_call"
    ELSE IF IgnoreKey(msg) \in ignore THEN "ignored"
    ELSE "accepted"

\* a recv_request that never seeds the counter
SeedCSeq_never(counter, msg) == counter

\* a recv_request that adopts the CSeq of every request it accepts
SeedCSeq_always(counter, msg) == CSeqNumber(msg.cseq)

\* lines 186-188
SeedCSeq(counter, msg) == IF counter = 0 THEN CSeqNumber(msg.cseq) ELSE counter

\* lines 216-218: the arguments of format() are evaluated before RuntimeError is
\* built, and recv_response has no name `method`
ResponseMismatch(status, msg) ==
    [error |-> "NameError", expected |-> "", actual |-> ""]

\* lines 190-192
RequestMismatch(method, msg) ==
    [error |-> "RuntimeError", expected |-> method, actual |-> msg.method]

\* Request.respond(response) -> send_response -> dialog.send_reply
AutoReply(msg) ==
    SentReply(AutoResponse(msg), SetHeader(NoHeaders, "CSeq", msg.cseq))

\* a safety net that clears the flag and transmits nothing
SafetyNetAck_silent(msg) ==
    /\ require_cancel' = FALSE
    /\ UNCHANGED <<cseq, sent>>

\* line 214: response.ack() -> send_request('ACK', headers={'CSeq': 'n ACK'})
SafetyNetAck(msg) ==
    LET headers == RespondHeaders(msg, "ACK")
    IN  /\ require_cancel' = RequireCancelAfter(require_cancel, "ACK")
        /\ cseq' = CSeqAfter(cseq, headers)
        /\ sent' = Append(sent, SentRequest("ACK", RequestHeaders(cseq, "ACK", headers)))

recv_pop ==
    /\ pc.stage = "pop"
    /\ queue # <<>>
    /\ LET msg == Head(queue)
           turn == RecvTurn(msg, MsgType(pc.op))
           verdict == IF turn = "returned" THEN Filter(msg, pc.ignore) ELSE turn
       IN  /\ queue' = Tail(queue)
           /\ popped' = Append(popped, msg)
           /\ call_id' = IF turn = "returned" /\ call_id = "" THEN msg.call_id ELSE call_id
           /\ CASE verdict = "answered" ->
                     /\ sent' = Append(sent, AutoReply(msg))
                     /\ UNCHANGED <<cseq, require_cancel, pc, result>>
                [] verdict = "AttributeError" ->
                     /\ Raise("AttributeError", "", "")
                     /\ UNCHANGED <<cseq, require_cancel, sent>>
                [] verdict \in {"skipped", "other_call", "ignored"} ->
                     UNCHANGED <<cseq, require_cancel, sent, pc, result>>
                [] verdict = "accepted" /\ pc.op = "recv_request" ->
                     /\ cseq' = SeedCSeq(cseq, msg)
                     /\ IF msg.method # pc.method
                        THEN LET e == RequestMismatch(pc.method, msg)
                             IN  Raise(e.error, e.expected, e.actual)
                        ELSE /\ pc' = Idle
                             /\ result' = Finished("returned", "", "", "", msg)
                     /\ UNCHANGED <<require_cancel, sent>>
                [] verdict = "accepted" /\ pc.op = "recv_response" ->
                     IF msg.status_code # StatusCode(pc.status)
                     THEN /\ IF require_cancel
                             THEN SafetyNetAck(msg)
                             ELSE UNCHANGED <<cseq, require_cancel, sent>>
                          /\ pc' = [pc EXCEPT !.stage = "raise", !.msg = msg]
                          /\ UNCHANGED result
                     ELSE /\ pc' = Idle
                          /\ result' = Finished("returned", "", "", "", msg)
                          /\ UNCHANGED <<cseq, require_cancel, sent>>
    /\ UNCHANGED <<caller_headers, budget>>
    /\ UNCHANGED <<kind, dialog, dialogs, app_dialogs, dialog_ready, transports,
                   message_callback, method_routes, tasks, delivered, narrived, ncalls>>

\* recv_response lines 216-218, after the safety-net ACK
raise_mismatch ==
    /\ pc.stage = "raise"
    /\ LET e == ResponseMismatch(pc.status, pc.msg)
       IN  Raise(e.error, e.expected, e.actual)
    /\ UNCHANGED <<caller_headers, budget>>
    /\ UNCHANGED <<kind, dialog, dialogs, app_dialogs, dialog_ready, transports, queue,
                   cseq, call_id, message_callback, method_routes, require_cancel, tasks,
                   sent, delivered, popped, narrived, ncalls>>

\* line 154: nothing was put on the queue for 30 s
recv_timeout ==
    /\ pc.stage = "pop"
    /\ queue = <<>>
    /\ Raise("TimeoutError", "", "")
    /\ UNCHANGED <<caller_headers, budget>>
    /\ UNCHANGED <<kind, dialog, dialogs, app_dialogs, dialog_ready, transports, queue,
                   cseq, call_id, message_callback, method_routes, require_cancel, tasks,
                   sent, delivered, popped, narrived, ncalls>>

(***************************************************************************)
(* UserAgent.close, add_receive_callback, add_route: they never suspend.   *)
(***************************************************************************)
\* a close that closes the connections whether or not a dialog is bound
close_unguarded ==
    /\ pc.op = "idle"
    /\ narrived + ncalls < budget
    /\ ncalls' = ncalls + 1
    /\ dialogs' = IF dialog # None THEN [dialogs EXCEPT ![dialog].open = FALSE] ELSE dialogs
    /\ transports' = [t \in 1..Len(transports) |-> transports[t] + 1]
    /\ dialog' = None
    /\ UNCHANGED <<caller_headers, budget>>
    /\ UNCHANGED <<kind, app_dialogs, dialog_ready, queue, cseq, call_id,
                   message_callback, method_routes, require_cancel, tasks, pc, result,
                   sent, delivered, popped, narrived>>

close ==
    /\ pc.op = "idle"
    /\ narrived + ncalls < budget
    /\ ncalls' = ncalls + 1
    /\ IF dialog # None
       THEN /\ dialogs' = [dialogs EXCEPT ![dialog].open = FALSE]
            /\ transports' = [t \in 1..Len(transports) |-> transports[t] + 1]
            /\ dialog' = None
       ELSE UNCHANGED <<dialogs, transports, dialog>>
    /\ UNCHANGED <<caller_headers, budget>>
    /\ UNCHANGED <<kind, app_dialogs, dialog_ready, queue, cseq, call_id,
                   message_callback, method_routes, require_cancel, tasks, pc, result,
                   sent, delivered, popped, narrived>>

add_receive_callback(callback) ==
    /\ pc.op = "idle"
    /\ narrived + ncalls < budget
    /\ ncalls' = ncalls + 1
    /\ message_callback' = callback
    /\ UNCHANGED <<caller_headers, budget>>
    /\ UNCHANGED <<kind, dialog, dialogs, app_dialogs, dialog_ready, transports, queue,
                   cseq, call_id, method_routes, require_cancel, tasks, pc, result, sent,
                   delivered, popped, narrived>>

add_route(method, callback) ==
    /\ pc.op = "idle"
    /\ narrived + ncalls < budget
    /\ ncalls' = ncalls + 1
    /\ method_routes' = [method_routes EXCEPT ![method] = callback]
    /\ UNCHANGED <<caller_headers, budget>>
    /\ UNCHANGED <<kind, dialog, dialogs, app_dialogs, dialog_ready, transports, queue,
                   cseq, call_id, message_callback, require_cancel, tasks, pc, result,
                   sent, delivered, popped, narrived>>

(***************************************************************************)
(* Server.listen: it awaits create_connection for the listening socket.    *)
(***************************************************************************)
call_listen ==
    /\ kind = "Server"
    /\ pc.op = "idle"
    /\ narrived + ncalls < budget
    /\ ncalls' = ncalls + 1
    /\ pc' = [Idle EXCEPT !.op = "listen", !.stage = "create_connection"]
    /\ popped' = <<>>
    /\ UNCHANGED <<caller_headers, budget>>
    /\ UNCHANGED <<kind, dialog, dialogs, app_dialogs, dialog_ready, transports, queue,
                   cseq, call_id, message_callback, method_routes, require_cancel, tasks,
                   result, sent, delivered, narrived>>

\* create_connection returned: the application has one more connection
listen ==
    /\ pc.op = "listen"
    /\ transports' = Append(transports, 0)
    /\ pc' = Idle
    /\ result' = Finished("done", "", "", "", NoMsg)
    /\ UNCHANGED <<caller_headers, budget>>
    /\ UNCHANGED <<kind, dialog, dialogs, app_dialogs, dialog_ready, queue, cseq,
                   call_id, message_callback, method_routes, require_cancel, tasks, sent,
                   delivered, popped, narrived, ncalls>>

\* the arguments the application passes in this exploration
SendRequestArgs ==
    {<<"INVITE", NoHeaders>>,
     <<"INVITE", SetHeader(NoHeaders, "CSeq", CSeqHeader(1, "INVITE"))>>,
     <<"ACK", NoHeaders>>}
RecvRequestArgs == {<<"INVITE", {}>>, <<"BYE", {"INVITE"}>>}
RecvResponseArgs == {<<OK200, {}>>, <<OK200, {180}>>}

Next ==
    \/ \E raw \in (IF kind = "Client" THEN ClientInbound ELSE ServerInbound) :
          dispatch(raw)
    \/ \E i \in 1..Len(tasks) : handle_incoming_start(i)
    \/ \E i \in 1..Len(tasks) : handle_incoming_finish(i)
    \/ \E a \in SendRequestArgs : call_send_request(a[1], a[2])
    \/ \E method \in {"ACK", "CANCEL"} : call_respond_to_response(method)
    \/ call_respond(OK200)
    \/ \E a \in RecvRequestArgs : call_recv_request(a[1], a[2])
    \/ \E a \in RecvResponseArgs : call_recv_response(a[1], a[2])
    \/ start_dialog
    \/ get_dialog_client
    \/ get_dialog_server
    \/ get_dialog_timeout
    \/ get_dialog_cancelled
    \/ send_request
    \/ send_response
    \/ recv_pop
    \/ raise_mismatch
    \/ recv_timeout
    \/ close
    \/ add_receive_callback("on_bye")
    \/ add_route("INVITE", "on_any")
    \/ call_listen
    \/ listen

Spec == Init /\ [][Next]_vars

(***************************************************************************)
(* The call scenarios: one more event, fewer inputs.  A client sends an    *)
(* INVITE, is answered 180 and 200, waits for the 200 and acknowledges it, *)
(* and sends requests with the headers dict it keeps; a server with a      *)
(* callback for BYE is sent an INVITE of one call and a BYE of another.    *)
(***************************************************************************)
ScenarioInit == Constructed /\ budget = ScenarioEvents

ScenarioClientInbound == {RawResponse("c1", 180, 1), RawResponse("c1", 200, 1)}
ScenarioServerInbound == {RawRequest("c1", "INVITE", 2), RawRequest("c2", "BYE", 1)}

ScenarioNext ==
    \/ \E raw \in (IF kind = "Client" THEN ScenarioClientInbound
                                       ELSE ScenarioServerInbound) :
          dispatch(raw)
    \/ \E i \in 1..Len(tasks) : handle_incoming_start(i)
    \/ \E i \in 1..Len(tasks) : handle_incoming_finish(i)
    \/ call_send_request("INVITE", NoHeaders)
    \/ \E method \in {"INVITE", "BYE"} : call_send_request_shared(method)
    \/ call_respond_to_response("ACK")
    \/ call_recv_request("BYE", {"INVITE"})
    \/ call_recv_response(OK200, {180})
    \/ start_dialog
    \/ get_dialog_client
    \/ get_dialog_server
    \/ get_dialog_timeout
    \/ get_dialog_cancelled
    \/ send_request
    \/ recv_pop
    \/ recv_timeout
    \/ add_receive_callback("on_bye")

ScenarioSpec == ScenarioInit /\ [][ScenarioNext]_vars

(***************************************************************************)
(* Properties.                                                             *)
(***************************************************************************)
Last(log) == log[Len(log)]

\* the CSeq number and method a transmitted message carries
SentCSeq(m) == Header(m.headers, "CSeq")

\* the step is send_request's body: the counter update and dialog.send_message
SendRequestStep == pc.op = "send_request" /\ pc.stage = "body" /\ pc'.op = "idle"

\* C1: a send_request called without a CSeq header, when the counter is N, sets the
\* counter to N+1 and transmits CSeq "N+1 <method>"; one called with a CSeq header
\* sets the counter to the header's number and transmits the header as given.  The
\* counter is not touched while the call waits for its dialog, so consecutive calls
\* without a header transmit N+1, N+2, ...
C1_SendRequestCSeq ==
    [][/\ SendRequestStep =>
            /\ Len(sent') = Len(sent) + 1
            /\ Last(sent').kind = "request"
            /\ Last(sent').method = pc.method
            /\ IF ~HasHeader(pc.headers, "CSeq")
               THEN /\ cseq' = cseq + 1
                    /\ SentCSeq(Last(sent')) = CSeqHeader(cseq + 1, pc.method)
               ELSE /\ cseq' = CSeqNumber(Header(pc.headers, "CSeq"))
                    /\ SentCSeq(Last(sent')) = Header(pc.headers, "CSeq")
       /\ (pc.op = "send_request" /\ ~SendRequestStep) => cseq' = cseq]_vars

\* three calls in a row: two without a header transmit 1 and 2, then one with the
\* header "1 INVITE" sets the counter back to 1
C1_Witness ==
    /\ Len(sent) = 3
    /\ SentCSeq(sent[1]) = CSeqHeader(1, "INVITE")
    /\ SentCSeq(sent[2]) = CSeqHeader(2, "ACK")
    /\ SentCSeq(sent[3]) = CSeqHeader(1, "INVITE")
    /\ cseq = 1

\* C2 as claimed: no step moves cseq to a smaller value
C2_CSeqNeverDecreases == [][cseq' >= cseq]_vars

\* the step transmits a request whose CSeq header the caller of send_request
\* supplied: an API call with a header, Response.ack / Response.cancel (which
\* always supply one), or the ACK recv_response sends on a mismatch
ExplicitCSeqSend ==
    /\ Len(sent') = Len(sent) + 1
    /\ Last(sent').kind = "request"
    /\ CSeqNumber(SentCSeq(Last(sent'))) = cseq'
    /\ \/ SendRequestStep /\ HasHeader(pc.headers, "CSeq")
       \/ pc.op = "recv_response" /\ pc.stage = "pop" /\ Last(sent').method = "ACK"

\* C2 amended: cseq decreases only in a send_request that carries a CSeq header,
\* which sets it to the header's number; every other step leaves it or raises it
C2_CSeqDecreasesOnlyByHeader == [][cseq' >= cseq \/ ExplicitCSeqSend]_vars

\* the counter went 1, 2 and then back to 1 through a supplied header
C2_Witness ==
    /\ Len(sent) >= 2
    /\ CSeqNumber(SentCSeq(sent[Len(sent) - 1])) > CSeqNumber(SentCSeq(Last(sent)))
    /\ Last(sent).kind = "request"
    /\ cseq = CSeqNumber(SentCSeq(Last(sent)))
    /\ result.frame.op = "send_request"
    /\ HasHeader(result.frame.headers, "CSeq")

\* an INVITE was transmitted and no ACK was transmitted after the last one
InviteUnacknowledged(log) ==
    \E i \in 1..Len(log) :
        /\ log[i].kind = "request" /\ log[i].method = "INVITE"
        /\ \A j \in (i + 1)..Len(log) :
               ~(log[j].kind = "request" /\ log[j].method = "ACK")

\* C3: require_cancel is true exactly when the last INVITE the agent transmitted was
\* not followed by an ACK it transmitted (false before any INVITE), so no step other
\* than these two transmissions changes it
C3_RequireCancel == require_cancel = InviteUnacknowledged(sent)

\* INVITE, ACK, INVITE: the flag was set, cleared and set again
C3_Witness ==
    /\ Len(sent) = 3
    /\ sent[1].method = "INVITE" /\ sent[2].method = "ACK" /\ sent[3].method = "INVITE"
    /\ require_cancel

\* the step is a queue.get() of the recv_* call in progress returning Head(queue)
PopStep == pc.stage = "pop" /\ queue # <<>> /\ popped' = Append(popped, Head(queue))

\* the ACK requests among the messages a step transmits
AcksSentInStep ==
    {i \in (Len(sent) + 1)..Len(sent') :
        sent'[i].kind = "request" /\ sent'[i].method = "ACK"}

\* recv_response accepts msg: a response, not answered by the callback or a route,
\* of the agent's call (or the first message it sees), its status not ignored
AcceptedResponse(msg) ==
    /\ msg.type = "Response"
    /\ AutoResponse(msg) = NoResponse
    /\ call_id = "" \/ msg.call_id = call_id
    /\ msg.status_code \notin pc.ignore

\* C4: the step in which recv_response accepts a response with another status than
\* the expected one transmits exactly one ACK (carrying the response's CSeq number)
\* when require_cancel is true and none when it is false, and does not end the call
\* yet: the failure is raised by the step after it, which transmits nothing.  No
\* other step of recv_response transmits an ACK, in particular not the one that
\* accepts a response with the expected status.
C4_AckOnMismatch ==
    [][pc.op = "recv_response" =>
         LET msg == Head(queue)
             mismatch == /\ PopStep
                         /\ AcceptedResponse(msg)
                         /\ msg.status_code # StatusCode(pc.status)
         IN  /\ (mismatch /\ require_cancel) =>
                   /\ Cardinality(AcksSentInStep) = 1
                   /\ Len(sent') = Len(sent) + 1
                   /\ SentCSeq(Last(sent')) = CSeqHeader(CSeqNumber(msg.cseq), "ACK")
             /\ ~(mismatch /\ require_cancel) => AcksSentInStep = {}
             /\ mismatch => (pc'.stage = "raise" /\ result' = result)
             /\ pc.stage = "raise" => (sent' = sent /\ (pc' # pc => result'.outcome = "raised"))
             /\ (pc'.stage = "raise" /\ pc.stage # "raise") => mismatch]_vars

\* the INVITE was answered 486 where 200 was expected: the ACK is the last message
\* transmitted, and the call has failed
C4_Witness ==
    /\ result.frame.op = "recv_response"
    /\ result.frame.stage = "raise"
    /\ result.outcome = "raised"
    /\ result.frame.msg.status_code = 486
    /\ Len(sent) = 2
    /\ sent[1].method = "INVITE"
    /\ sent[2].method = "ACK" /\ SentCSeq(sent[2]) = CSeqHeader(1, "ACK")
    /\ ~require_cancel

\* C5 as claimed: a recv_response that accepted a response with another status than
\* the expected one fails with the Protocol-Mismatch error (RuntimeError) and the
\* error reports the expected and the actual status
C5_MismatchIsProtocolMismatch ==
    (result.frame.op = "recv_response" /\ result.frame.stage = "raise") =>
        /\ result.outcome = "raised"
        /\ result.error = "RuntimeError"
        /\ result.expected = StatusCode(result.frame.status)
        /\ result.actual = result.frame.msg.status_code

\* recv_request accepts msg: a request, not answered by the callback or a route, of
\* the agent's call, its method not ignored (call is the agent's call_id after the
\* step, which the first request seen sets)
CandidateRequest(msg, call, ignore) ==
    /\ msg.type = "Request"
    /\ AutoResponse(msg) = NoResponse
    /\ msg.call_id = call
    /\ msg.method \notin ignore

Candidates(log, call, ignore) ==
    {i \in 1..Len(log) : CandidateRequest(log[i], call, ignore)}

\* C6: a recv_request goes on popping as long as no request of the call with a
\* method outside the ignore list has come; the first such request ends the call, with
\* RuntimeError reporting the expected and the found method if its method differs
\* from the expected one and by returning that request otherwise.  So an ignored
\* request neither fails the call nor is returned.
C6_RecvRequestMismatch ==
    [][(pc.op = "recv_request" /\ pc.stage = "pop" /\ pc' # pc) =>
         LET found == Candidates(popped', call_id', pc.ignore)
             first == popped'[CHOOSE i \in found : \A j \in found : i <= j]
         IN  /\ pc'.op = "recv_request" => found = {}
             /\ found # {} =>
                   /\ found = {Len(popped')}
                   /\ pc'.op = "idle"
                   /\ IF first.method # pc.method
                      THEN /\ result'.outcome = "raised"
                           /\ result'.error = "RuntimeError"
                           /\ result'.expected = pc.method
                           /\ result'.actual = first.method
                      ELSE /\ result'.outcome = "returned"
                           /\ result'.msg = first
             /\ (pc'.op = "idle" /\ found = {}) =>
                   (result'.outcome = "raised"
                    /\ result'.error \in {"TimeoutError", "AttributeError"})]_vars

\* recv_request('INVITE') met a BYE of the call
C6_Witness ==
    /\ result.frame.op = "recv_request"
    /\ result.error = "RuntimeError"
    /\ result.expected = "INVITE"
    /\ result.actual = "BYE"
    /\ Last(popped).method = "BYE"

\* C7: once call_id is set no step changes it; it is set by a recv_request /
\* recv_response to the Call-ID of the first message recv hands it; and every message
\* these two return carries the agent's call_id
C7_OneCallId ==
    [][/\ call_id # "" => call_id' = call_id
       /\ (call_id = "" /\ call_id' # "") =>
             (PopStep /\ call_id' = Head(queue).call_id
              /\ Head(queue).type = MsgType(pc.op))
       /\ (result' # result /\ result'.outcome = "returned") =>
             (call_id' # "" /\ result'.msg.call_id = call_id')]_vars

\* a request of another call was on the queue, popped and passed over, and the call
\* went on to return a request of the agent's call
C7_Witness ==
    /\ result.frame.op = "recv_request"
    /\ result.outcome = "returned"
    /\ result.msg.call_id = call_id
    /\ \E i \in 1..Len(popped) :
          popped[i].type = "Request" /\ popped[i].call_id # call_id

\* C8 as claimed: messages of one Call-ID are put on the agent's queue in the order
\* in which they were passed to dispatch (id is the position in that order), also
\* when they were dispatched before the Call-ID was registered
C8_QueueKeepsArrivalOrder ==
    \A i, j \in 1..Len(delivered) :
        (i < j /\ delivered[i].call_id = delivered[j].call_id)
            => delivered[i].id < delivered[j].id

\* the call the agent's dialog was created for by the first unmatched message
AgentCall == dialogs[dialog_ready.result].call_id

\* C9 as claimed: no message of the agent's call that was passed to dispatch is
\* dropped: no handle_incoming task returns without putting its message on the queue
\* when the message carries the Call-ID of the dialog the agent was given
C9_NoMessageOfTheCallDiscarded ==
    \A t \in 1..Len(tasks) :
        (kind = "Server" /\ tasks[t].pc = "discarded" /\ dialog_ready.state = "resolved")
            => tasks[t].msg.call_id # AgentCall

\* C10 as claimed: after get_dialog timed out on a Server the agent has no dialog
\* bound by that call and dialog_ready is as it would be had the call not been made:
\* pending until the first unmatched message resolves it, so that handle_incoming
\* drops a message only once a dialog exists
C10_TimeoutCommitsNothing ==
    (/\ kind = "Server"
     /\ result.outcome = "raised"
     /\ result.error = "TimeoutError"
     /\ result.frame.stage = "get_dialog")
        => /\ dialog_ready.state \in {"pending", "resolved"}
           /\ dialog_ready.state = "pending" => dialog = None
           /\ \A t \in 1..Len(tasks) :
                  tasks[t].pc = "discarded" => dialog_ready.state = "resolved"

\* C11: every close() leaves the agent without a dialog and raises nothing (the
\* application flow goes on, no call result is recorded); a close() that finds a
\* dialog bound closes that dialog and calls close() once on every connection; a
\* close() that finds none bound (a second close() in a row, or a close() before any
\* dialog was acquired) closes no dialog and no connection and changes nothing else
C11_CloseIdempotent ==
    [][close =>
         /\ dialog' = None
         /\ pc' = Idle /\ result' = result
         /\ dialog # None =>
               /\ ~dialogs'[dialog].open
               /\ \A d \in 1..Len(dialogs) : d # dialog => dialogs'[d] = dialogs[d]
               /\ \A t \in 1..Len(transports) : transports'[t] = transports[t] + 1
         /\ dialog = None =>
               /\ dialogs' = dialogs
               /\ transports' = transports
               /\ UNCHANGED <<queue, cseq, call_id, require_cancel, sent, dialog_ready,
                              app_dialogs>>]_vars

\* a client made one send_request and two close() calls: one of them found the
\* dialog and closed it and its connection once, the other found none
C11_Witness ==
    /\ kind = "Client"
    /\ ncalls = 3
    /\ pc = Idle
    /\ result.frame.op = "send_request" /\ Len(sent) = 1
    /\ message_callback = "" /\ \A m \in RequestMethods : method_routes[m] = ""
    /\ dialog = None
    /\ Len(dialogs) = 1 /\ ~dialogs[1].open
    /\ transports = <<1>>

\* the scenario of C12, recognised in a state: the agent is a client with no callback,
\* its dialog is the only one (so every message came after the client had its
\* dialog), its first call was send_request('INVITE') without headers, and what was
\* put on its queue begins with the 180 and then the 200 of its call
IsStatus(msg, status_code) ==
    msg.type = "Response" /\ msg.call_id = "c1" /\ msg.status_code = status_code

RingingThenOk(log) ==
    /\ Len(log) >= 1 => IsStatus(log[1], 180)
    /\ Len(log) >= 2 => IsStatus(log[2], 200)
    /\ Len(log) <= 2

InviteWasFirst ==
    /\ kind = "Client"
    /\ message_callback = ""
    /\ Len(dialogs) = 1 /\ dialogs[1].call_id = "c1"
    /\ Len(sent) >= 1
    /\ sent[1].kind = "request" /\ sent[1].method = "INVITE"
    /\ ~HasHeader(sent[1].headers, "Subject")
    /\ RingingThenOk(delivered)

WaitsFor200(frame) ==
    frame.op = "recv_response" /\ frame.status = OK200 /\ frame.ignore = {180}

\* C12: in that scenario the INVITE is transmitted with CSeq "1 INVITE"; while
\* recv_response('200 OK', ignore=[180]), the second call, runs and when it ends,
\* nothing more was transmitted (no ACK), the flag and the counter are untouched, the
\* 180 it popped did not end it, it fails only by Timeout, and once it has popped the
\* 180 and the 200 it has returned the 200; after ack(), the third call, the ACK with
\* CSeq "1 ACK" is the second message transmitted, require_cancel is false, cseq is 1
C12_InviteRingingOkAck ==
    InviteWasFirst =>
        /\ SentCSeq(sent[1]) = CSeqHeader(1, "INVITE")
        /\ (ncalls = 1 /\ pc = Idle) => (cseq = 1 /\ require_cancel /\ Len(sent) = 1)
        /\ (ncalls = 2 /\ WaitsFor200(pc)) =>
              /\ Len(sent) = 1 /\ cseq = 1 /\ require_cancel
              /\ Len(popped) <= 1
        /\ (ncalls = 2 /\ pc = Idle /\ WaitsFor200(result.frame)) =>
              /\ Len(sent) = 1 /\ cseq = 1 /\ require_cancel
              /\ IF Len(popped) = 2
                 THEN result.outcome = "returned" /\ result.msg = popped[2]
                      /\ IsStatus(result.msg, 200)
                 ELSE result.outcome = "raised" /\ result.error = "TimeoutError"
        /\ (/\ ncalls = 3 /\ pc = Idle /\ Len(delivered) = 2 /\ queue = <<>>
            /\ result.frame.op = "send_request" /\ result.frame.method = "ACK") =>
              /\ Len(sent) = 2
              /\ sent[2].kind = "request" /\ sent[2].method = "ACK"
              /\ SentCSeq(sent[2]) = CSeqHeader(1, "ACK")
              /\ ~require_cancel
              /\ cseq = 1

\* INVITE, 180, 200, recv_response('200 OK', ignore=[180]) and ack() have all happened
C12_Witness ==
    /\ InviteWasFirst
    /\ ncalls = 3 /\ pc = Idle /\ Len(delivered) = 2 /\ queue = <<>>
    /\ result.frame.op = "send_request" /\ result.frame.method = "ACK"
    /\ result.frame.headers = RespondHeaders(delivered[2], "ACK")
    /\ Len(sent) = 2 /\ sent[2].method = "ACK"
    /\ ~require_cancel

\* the dialogs that are open: every Dialog of this model is built with the agent as
\* its owner (lines 94 and 276) and puts what it receives on the agent's queue
OpenDialogs == {d \in 1..Len(dialogs) : dialogs[d].open}

\* C13 as claimed: at any time at most one open dialog is owned by the agent and feeds
\* its queue, whether start_dialog or a handle_incoming task created it
C13_OneOpenDialog == Cardinality(OpenDialogs) <= 1

\* the dialogs built by handle_incoming tasks
IncomingDialogs == {d \in 1..Len(dialogs) : dialogs[d].made_by = "handle_incoming"}

\* C14 as claimed: on a server, of the handle_incoming tasks of the unmatched messages
\* only one builds and registers a dialog (each has opened its connection), and no
\* task fails when it comes to resolve dialog_ready after another one did (no
\* get_dialog having timed out in between)
C14_ReadyResolvedOnce ==
    (kind = "Server" /\ dialog_ready.state # "cancelled") =>
        /\ Cardinality(IncomingDialogs) <= 1
        /\ \A t \in 1..Len(tasks) : tasks[t].pc # "InvalidStateError"

\* recv calls a handler with msg: the global callback if one is registered (line
\* 158), the route of the message's method if the callback answered nothing (line 165)
HandlerInvoked(msg) == message_callback # "" \/ method_routes[msg.method] # ""

\* C15 as claimed: once call_id is set, a message with another Call-ID that is popped
\* from the queue is passed to no handler, has nothing transmitted in answer, and is
\* not returned: the pop leaves the call where it was
C15_OtherCallNeverSeen ==
    [][(PopStep /\ call_id # "" /\ Head(queue).call_id # call_id) =>
          /\ ~HandlerInvoked(Head(queue))
          /\ sent' = sent
          /\ pc' = pc /\ result' = result]_vars

\* C16 as claimed: of the message a pop takes from the queue, (a) if the callback or
\* a route answered it, exactly that one response is transmitted and the call goes
\* on; (b) if no handler answered it and it is not of the expected kind, it is
\* dropped with nothing transmitted and the call goes on; (c) a call returns it only
\* if no handler answered it and it is of the expected kind
C16_RecvTurns ==
    [][PopStep =>
         LET msg == Head(queue)
             handled == AutoResponse(msg) # NoResponse
             expected == msg.type = MsgType(pc.op)
         IN  /\ handled =>
                   /\ Len(sent') = Len(sent) + 1
                   /\ Last(sent').kind = "reply"
                   /\ Last(sent').status = AutoResponse(msg)
                   /\ pc' = pc /\ result' = result
             /\ (~handled /\ ~expected) =>
                   (sent' = sent /\ pc' = pc /\ result' = result)
             /\ (result' # result /\ result'.outcome = "returned") =>
                   (~handled /\ expected /\ result'.msg = msg)]_vars

\* C17 as claimed: while a dialog is bound, a call that needs the dialog does not wait
\* for the acquisition again and no step binds another dialog or starts one; and the
\* dialog get_dialog binds or returns is never one that close() has closed
C17_GetDialogIdempotent ==
    [][/\ (dialog # None /\ pc.op = "idle" /\ pc'.op # "idle") => pc'.stage # "get_dialog"
       /\ (dialog # None /\ dialog' # None) =>
             /\ dialog' = dialog
             /\ \A d \in (Len(dialogs) + 1)..Len(dialogs') :
                    dialogs'[d].made_by # "start_dialog"
       /\ dialog' # None => dialogs'[dialog'].open]_vars

\* C18: the pop in which recv_request accepts a request (not answered by a handler,
\* of the agent's call, its method not ignored) sets cseq to that request's CSeq
\* number if cseq was 0 and leaves it otherwise; every other pop of recv_request (a
\* request that is ignored, of another call, answered by a handler, or a response)
\* leaves cseq as it was; and so does every pop of recv_response other than the one
\* that accepts a response with an unexpected status
C18_SeedOnlyWhenUnset ==
    [][PopStep =>
         LET msg == Head(queue)
         IN  /\ pc.op = "recv_request" =>
                   IF CandidateRequest(msg, call_id', pc.ignore)
                   THEN cseq' = (IF cseq = 0 THEN CSeqNumber(msg.cseq) ELSE cseq)
                   ELSE cseq' = cseq
             /\ (/\ pc.op = "recv_response"
                 /\ ~(AcceptedResponse(msg) /\ msg.status_code # StatusCode(pc.status)))
                   => cseq' = cseq]_vars

\* recv_request('BYE', ignore=['INVITE']) popped the INVITE with CSeq 2, which it
\* ignored, then the BYE with CSeq 1, which it returned: the counter is 1
C18_Witness ==
    /\ result.frame.op = "recv_request"
    /\ result.outcome = "returned"
    /\ Len(popped) = 2
    /\ popped[1].method = "INVITE" /\ CSeqNumber(popped[1].cseq) = 2
    /\ popped[2] = result.msg /\ CSeqNumber(popped[2].cseq) = 1
    /\ sent = <<>>
    /\ cseq = 1

\* C19 as claimed: a send_request that was passed the dict the application keeps
\* (not empty, no CSeq entry when the application made it) leaves that dict as it
\* was, increments the counter and transmits the new number with its own method
C19_CallerHeadersUntouched ==
    [][(SendRequestStep /\ pc.shared) =>
          /\ caller_headers' = caller_headers
          /\ cseq' = cseq + 1
          /\ SentCSeq(Last(sent')) = CSeqHeader(cseq + 1, pc.method)]_vars

\* C20 as claimed, for a recv_request / recv_response that had its dialog and went
\* on to pop the queue: when it has ended it has either returned a message or failed
\* with Timeout or with the Protocol-Mismatch error (RuntimeError)
C20_RecvEndsAsClaimed ==
    (/\ result.frame.op \in {"recv_request", "recv_response"}
     /\ result.frame.stage \in {"pop", "raise"})
        => \/ result.outcome = "returned"
           \/ /\ result.outcome = "raised"
              /\ result.error \in {"TimeoutError", "RuntimeError"}
====
